---- MODULE Spec2Model ----
(***************************************************************************)
(* Dealer Notes Portal: the rep coverage / dealer scoping rules, the       *)
(* dealer page handlers, the regions catalog and the login-time load       *)
(* effects, modelled from the application source.                          *)
(*                                                                         *)
(* One browser session (local React state) runs against the shared         *)
(* backend (db* variables).  Handlers are single steps; a fetch started    *)
(* by an effect is a separate step from the one that applies its result.   *)
(***************************************************************************)
EXTENDS Integers, Sequences, FiniteSets, TLC

(* ------------------------------ universes ------------------------------ *)
States == {"IL", "TX"}
Regions == {"North", "South"}
StatusInputs == {"Active", "Inactive"}
Categories == {"Visit", "Problem", "Other", "Manager"}
NoRep == ""
\* a dealer without a noDealReasons record (undefined, read as {})
NoReasons == << >>
NoSession == [username |-> "", role |-> ""]

\* bounds of the model
MaxNotes == 2
MaxTasks == 2

(* backend profiles table: username -> role, status (rows ordered by username) *)
Profiles ==
  << [username |-> "manager", role |-> "Manager", status |-> "Active"],
     [username |-> "pronto",  role |-> "Admin",   status |-> "Active"],
     [username |-> "rep1",    role |-> "Rep",     status |-> "Active"],
     [username |-> "rep2",    role |-> "Rep",     status |-> "Active"] >>

Usernames == {Profiles[i].username : i \in 1..Len(Profiles)}
RepNames == {Profiles[i].username : i \in {j \in 1..Len(Profiles) : Profiles[j].role = "Rep"}}

VARIABLES
  session,      \* App.session: {username, role} or NoSession
  users,        \* local User[] (sequence, array order)
  dealers,      \* local Dealer[] as id -> record
  regions,      \* local RegionsCatalog: state -> set of regions (key present iff non-empty)
  notes,        \* local Note[]
  tasks,        \* local Task[]
  dbDealers,    \* backend table dealers
  dbNotes,      \* backend table dealer_notes
  dbTasks,      \* backend table dealer_tasks
  dbCoverage,   \* backend table rep_coverage: set of <<username, state, region>>
  dealersFetch, \* in-flight result of the login-time dealers query
  tasksFetch,   \* in-flight result of the login-time tasks query
  covFetch,     \* in-flight result of the coverage query
  notesFetch,   \* in-flight result of the dealer-page notes query
  seq,          \* ids handed out so far (notes, tasks)
  repFilter,    \* ReportingView.repFilter: "ALL" or a username
  routeByDate,  \* RepRouteView.routeByDate: date -> stops
  dateStr,      \* RepRouteView.dateStr
  fRep,         \* DealerSearchView.fRep: "" (All) or a username
  clock,        \* the browser's clock, new Date(), in days
  authUsers,    \* ids of the users held by the auth service
  lastOp        \* the handler that ran last and how it ended

vars == << session, users, dealers, regions, notes, tasks, dbDealers, dbNotes,
           dbTasks, dbCoverage, dealersFetch, tasksFetch, covFetch, notesFetch, seq,
           repFilter, routeByDate, dateStr, fRep, clock, authUsers, lastOp >>

\* state local to the reporting, route and search views, and the auth
\* service's users, which no handler of the application changes directly
viewVars == << repFilter, routeByDate, dateStr, fRep, clock, authUsers >>

(* ------------------------------- helpers ------------------------------- *)
None == << >>
Put(f, k, v) == [x \in (DOMAIN f) \cup {k} |-> IF x = k THEN v ELSE f[x]]
Drop(f, k) == [x \in (DOMAIN f) \ {k} |-> f[x]]
Range(s) == {s[i] : i \in DOMAIN s}
\* the handler that ran, its subject, its outcome and, for a dealer update,
\* the patch object handed to updateDealer
NoPatch == << >>
Op(name, arg, res) == [op |-> name, arg |-> arg, res |-> res, patch |-> NoPatch]
OpPatch(name, arg, res, patch) == [op |-> name, arg |-> arg, res |-> res, patch |-> patch]

\* /^[0-9a-fA-F-]{36}$/.test(id): seeded demo dealers carry short uid() ids
IsUUID(id) == id \in {"u1", "u2", "u3"}
DealerIds == {"s1", "u1", "u2", "u3"}

\* users.find((u) => u.username === name) || null
FindUser(us, name) ==
  LET idx == {i \in 1..Len(us) : us[i].username = name}
  IN IF idx = {} THEN << >> ELSE << us[CHOOSE i \in idx : \A j \in idx : i <= j] >>

MergeNone(rec, patch) == rec
\* { ...d, ...patch }
Merge(rec, patch) == [f \in DOMAIN rec |-> IF f \in DOMAIN patch THEN patch[f] ELSE rec[f]]

(* --------------------------- dealer page access ------------------------- *)
\* DealerNotesView: me = users.find(u => u.username === session.username) || null
Me == FindUser(users, session.username)

includesRegionAny(u, st, rg) == TRUE
\* u.regionsByState[st]?.includes(rg) ?? false: a state without a key in the
\* user's regionsByState has no covered region
includesRegion(u, st, rg) == st \in DOMAIN u.regionsByState /\ rg \in u.regionsByState[st]

isAdminManagerAny == TRUE
isAdminManager == session.role = "Admin" \/ session.role = "Manager"
isRep == session.role = "Rep"

assignedToMe(d) == isRep /\ d.rep = session.username
coversState(d) == isRep /\ Me # << >> /\ d.state \in Me[1].states
coversRegion(d) == isRep /\ Me # << >> /\ includesRegion(Me[1], d.state, d.region)
repHasCoverage(d) == isRep /\ coversState(d) /\ coversRegion(d)
repCanAccess(d) == isAdminManager \/ assignedToMe(d) \/ repHasCoverage(d)
canUseManagerNote == isAdminManager

(* ------------------------------ seed data ------------------------------- *)
AllRegions == [st \in States |-> Regions]
NoRegions == [st \in {} |-> {}]

SeedUsers ==
  << [username |-> "pronto", role |-> "Admin", states |-> States, regionsByState |-> AllRegions],
     [username |-> "manager", role |-> "Manager", states |-> States, regionsByState |-> AllRegions],
     [username |-> "rep1", role |-> "Rep", states |-> States,
      regionsByState |-> [st \in States |-> IF st = "IL" THEN {"South"} ELSE {"North"}]] >>

SeedDealers ==
  [id \in {"s1"} |->
     [name |-> "Acme", state |-> "IL", region |-> "South", status |-> "Active",
      rep |-> "rep1", sending |-> "yes", reasons |-> NoReasons, lastVisited |-> 0]]

\* rows of the shared backend when the session starts
InitDbDealers ==
  [id \in {"u1"} |->
     [name |-> "Acme", state |-> "IL", region |-> "South", status |-> "Active",
      rep |-> "rep1", sending |-> "unknown", reasons |-> NoReasons, lastVisited |-> 0]]

InitDbCoverage ==
  { <<"rep1", "IL", "South">>, <<"rep1", "TX", "North">>,
    <<"rep2", "IL", "North">>, <<"rep2", "IL", "South">> }


(* ------------------------- login and load effects ----------------------- *)
\* App (coverage load effect): profiles ordered by username, one User per
\* profile, states[] and regionsByState{} collected from the coverage rows
CoverageUsers(cov) ==
  [i \in 1..Len(Profiles) |->
     [username |-> Profiles[i].username,
      role |-> Profiles[i].role,
      states |-> {st \in States : \E rg \in Regions : <<Profiles[i].username, st, rg>> \in cov},
      regionsByState |->
        [st \in {x \in States : \E rg \in Regions : <<Profiles[i].username, x, rg>> \in cov} |->
           {rg \in Regions : <<Profiles[i].username, st, rg>> \in cov}]]]

\* App (dealers load effect): rebuilt catalog, state -> unique regions of the fetched dealers
RebuiltCatalog(rows) ==
  [st \in States |-> {rows[id].region : id \in {x \in DOMAIN rows : rows[x].state = st}}]

\* App (tasks load effect): Admin/Manager fetch every task, a Rep only its own
TasksQuery(s) ==
  IF s.role = "Admin" \/ s.role = "Manager" THEN dbTasks
  ELSE {t \in dbTasks : t.repUsername = s.username}

\* LoginView.handle, backend path, followed by the effects keyed on [session]:
\* the three queries are issued when the session appears
Login(i) ==
  /\ session = NoSession
  /\ Profiles[i].status # "Inactive"
  /\ session' = [username |-> Profiles[i].username, role |-> Profiles[i].role]
  /\ dealersFetch' = << dbDealers >>
  /\ tasksFetch' = << TasksQuery(session') >>
  /\ covFetch' = << dbCoverage >>
  /\ lastOp' = Op("login", Profiles[i].username, "ok")
  /\ UNCHANGED << users, dealers, regions, notes, tasks, dbDealers, dbNotes, dbTasks,
                  dbCoverage, notesFetch, seq, viewVars >>

\* App.handleLogout
Logout ==
  /\ session # NoSession
  /\ session' = NoSession
  /\ lastOp' = Op("logout", "", "ok")
  /\ UNCHANGED << users, dealers, regions, notes, tasks, dbDealers, dbNotes, dbTasks,
                  dbCoverage, dealersFetch, tasksFetch, covFetch, notesFetch, seq, viewVars >>

\* the dealers query resolves: replace local dealers, rebuild the catalog;
\* the new catalog object re-runs the coverage effect (deps [session, regions])
DealersLoadApply ==
  /\ dealersFetch # None
  /\ dealers' = dealersFetch[1]
  /\ regions' = RebuiltCatalog(dealersFetch[1])
  /\ dealersFetch' = None
  /\ covFetch' = IF session # NoSession THEN << dbCoverage >> ELSE covFetch
  /\ lastOp' = Op("dealersLoad", "", "ok")
  /\ UNCHANGED << session, users, notes, tasks, dbDealers, dbNotes, dbTasks, dbCoverage,
                  tasksFetch, notesFetch, seq, viewVars >>

\* the dealers query fails: logged only, prior state kept
DealersLoadFail ==
  /\ dealersFetch # None
  /\ dealersFetch' = None
  /\ lastOp' = Op("dealersLoad", "", "dbfail")
  /\ UNCHANGED << session, users, dealers, regions, notes, tasks, dbDealers, dbNotes,
                  dbTasks, dbCoverage, tasksFetch, covFetch, notesFetch, seq, viewVars >>

\* the coverage query resolves (setUsers(mergedUsers)) or fails (toast only)
CoverageLoadApply ==
  /\ covFetch # None
  /\ covFetch' = None
  /\ \/ users' = CoverageUsers(covFetch[1]) /\ lastOp' = Op("coverageLoad", "", "ok")
     \/ users' = users /\ lastOp' = Op("coverageLoad", "", "dbfail")
  /\ UNCHANGED << session, dealers, regions, notes, tasks, dbDealers, dbNotes, dbTasks,
                  dbCoverage, dealersFetch, tasksFetch, notesFetch, seq, viewVars >>

\* the tasks query resolves (setTasks(rows)) or fails (toast only)
TasksLoadApply ==
  /\ tasksFetch # None
  /\ tasksFetch' = None
  /\ \/ tasks' = tasksFetch[1] /\ lastOp' = Op("tasksLoad", "", "ok")
     \/ tasks' = tasks /\ lastOp' = Op("tasksLoad", "", "dbfail")
  /\ UNCHANGED << session, users, dealers, regions, notes, dbDealers, dbNotes, dbTasks,
                  dbCoverage, dealersFetch, covFetch, notesFetch, seq, viewVars >>

\* DealerNotesView (notes load effect), keyed on [dealer.id]: query issued
\* when the dealer page opens on dealer d
NotesLoadIssue(d) ==
  /\ session # NoSession
  /\ d \in DOMAIN dealers
  /\ notesFetch = None
  /\ notesFetch' = << [dealerId |-> d, rows |-> {n \in dbNotes : n.dealerId = d}] >>
  /\ lastOp' = Op("openDealer", d, "ok")
  /\ UNCHANGED << session, users, dealers, regions, notes, tasks, dbDealers, dbNotes,
                  dbTasks, dbCoverage, dealersFetch, tasksFetch, covFetch, seq, viewVars >>

\* setNotes(prev => [...prev.filter(n => n.dealerId !== dealer.id), ...mapped])
ReplaceAllNotes(local, f) == f.rows
ReplaceDealerNotes(local, f) == {n \in local : n.dealerId # f.dealerId} \cup f.rows

\* the notes query resolves: replace this dealer's local notes with the rows;
\* on error the effect returns and local notes are kept
NotesLoadApply ==
  /\ notesFetch # None
  /\ notesFetch' = None
  /\ \/ /\ notes' = ReplaceDealerNotes(notes, notesFetch[1])
        /\ lastOp' = Op("notesLoad", notesFetch[1].dealerId, "ok")
     \/ /\ notes' = notes
        /\ lastOp' = Op("notesLoad", notesFetch[1].dealerId, "dbfail")
  /\ UNCHANGED << session, users, dealers, regions, tasks, dbDealers, dbNotes, dbTasks,
                  dbCoverage, dealersFetch, tasksFetch, covFetch, seq, viewVars >>

(* -------------------------- dealer page handlers ------------------------ *)
OnDealerPage(d) == session # NoSession /\ d \in DOMAIN dealers

EditFrame == UNCHANGED << session, users, regions, notes, tasks, dbNotes, dbTasks, dbCoverage,
                          dealersFetch, tasksFetch, covFetch, notesFetch, seq, viewVars >>
AllButLastOp == UNCHANGED << session, users, dealers, regions, notes, tasks, dbDealers,
                             dbNotes, dbTasks, dbCoverage, dealersFetch, tasksFetch,
                             covFetch, notesFetch, seq, viewVars >>

\* the handler returned before any mutation
Rejected(name, d, res) == lastOp' = Op(name, d, res) /\ AllButLastOp

dbUpdateNone(rows, d, patch) == rows
\* supabase.from("dealers").update(dbPatch).eq("id", dealer.id): the patched
\* columns of the row with that id, nothing when no row has it
dbUpdate(rows, d, patch) ==
  IF d \in DOMAIN rows THEN [rows EXCEPT ![d] = Merge(@, patch)] ELSE rows

\* updateDealer(patch): optimistic local merge, then (UUID dealers only) a
\* backend update of exactly the patched columns; a failed write is toasted
\* and the local merge is kept
updateDealer(name, d, patch) ==
  /\ dealers' = [dealers EXCEPT ![d] = Merge(@, patch)]
  /\ IF ~IsUUID(d)
       THEN dbDealers' = dbDealers /\ lastOp' = OpPatch(name, d, "local", patch)
       ELSE \/ /\ dbDealers' = dbUpdate(dbDealers, d, patch)
               /\ lastOp' = OpPatch(name, d, "ok", patch)
            \/ /\ dbDealers' = dbDealers
               /\ lastOp' = OpPatch(name, d, "dbfail", patch)
  /\ EditFrame

changeStatus(d, status) ==
  /\ OnDealerPage(d)
  /\ IF ~repCanAccess(dealers[d])
       THEN Rejected("changeStatus", d, "denied")
       ELSE updateDealer("changeStatus", d, [status |-> status])

changeAssignedRep(d, username) ==
  /\ OnDealerPage(d)
  /\ IF ~isAdminManager
       THEN Rejected("changeAssignedRep", d, "denied")
       ELSE updateDealer("changeAssignedRep", d, [rep |-> username])

toggleSendingDeals(d, val) ==
  /\ OnDealerPage(d)
  /\ IF ~repCanAccess(dealers[d])
       THEN Rejected("toggleSendingDeals", d, "denied")
       ELSE IF val
         THEN updateDealer("toggleSendingDeals", d, [sending |-> "yes", reasons |-> NoReasons])
         ELSE updateDealer("toggleSendingDeals", d,
                           [sending |-> "no", reasons |-> dealers[d].reasons])

\* setReason(key, v): { ...current, [key]: v }, v a checkbox value or the
\* text of the "other" field (a sequence of characters); the reason inputs
\* are rendered only while dealer.sendingDeals === false
setReason(d, key, v) ==
  /\ OnDealerPage(d)
  /\ dealers[d].sending = "no"
  /\ IF ~repCanAccess(dealers[d])
       THEN Rejected("setReason", d, "denied")
       ELSE updateDealer("setReason", d,
              [reasons |-> Put(dealers[d].reasons, key, v)])

\* saveAllAndClose: name draft and edit-details draft, plus the dealer's
\* current sending status and reasons
saveAllAndClose(d, nameDraft, st, rg) ==
  /\ OnDealerPage(d)
  /\ IF ~repCanAccess(dealers[d])
       THEN Rejected("saveAllAndClose", d, "denied")
       ELSE IF nameDraft = ""
         THEN Rejected("saveAllAndClose", d, "invalid")
         ELSE updateDealer("saveAllAndClose", d,
                [name |-> nameDraft, state |-> st, region |-> rg,
                 sending |-> dealers[d].sending, reasons |-> dealers[d].reasons])

(* ------------------------------ notes, tasks ---------------------------- *)
\* the row the backend returns for the insert, mapped to the Note shape
NewNote(d, cat, text) ==
  [id |-> seq.note + 1, dealerId |-> d, authorUsername |-> session.username,
   category |-> cat, text |-> text, tsISO |-> seq.note + 1]

\* the Task built for a Manager note: the override, else the author
NewTask(d) ==
  [id |-> seq.task + 1, dealerId |-> d,
   repUsername |-> IF dealers[d].rep # NoRep THEN dealers[d].rep ELSE session.username,
   text |-> dealers[d].name, completed |-> FALSE]

\* setTasks((prev) => [t, ...prev])
PrependTask(ts, t) == ts \cup {t}
RemoveTaskNone(ts, t) == ts
\* setTasks((prev) => prev.filter((x) => x.id !== t.id))
RemoveTask(ts, t) == {x \in ts : x.id # t.id}

\* addNote: access check, text check, auth check, note insert, local prepend,
\* then for a Manager note by an Admin/Manager the task (optimistic, removed
\* again when its insert fails)
addNote(d, cat, text, authOk, noteOk, taskOk) ==
  /\ OnDealerPage(d)
  /\ seq.note < MaxNotes
  /\ seq.task < MaxTasks
  /\ IF ~repCanAccess(dealers[d]) THEN Rejected("addNote", d, "denied")
     ELSE IF text = "" THEN Rejected("addNote", d, "invalid")
     ELSE IF ~authOk THEN Rejected("addNote", d, "noauth")
     ELSE IF ~noteOk THEN Rejected("addNote", d, "dbfail")
     ELSE
       /\ dbNotes' = dbNotes \cup {NewNote(d, cat, text)}
       /\ notes' = notes \cup {NewNote(d, cat, text)}
       /\ IF cat = "Manager" /\ canUseManagerNote /\ NewTask(d).repUsername # ""
            THEN /\ seq' = [note |-> seq.note + 1, task |-> seq.task + 1]
                 /\ IF taskOk
                      THEN /\ tasks' = PrependTask(tasks, NewTask(d))
                           /\ dbTasks' = dbTasks \cup {NewTask(d)}
                           /\ lastOp' = Op("addNote", d, "ok+task")
                      ELSE /\ tasks' = RemoveTask(PrependTask(tasks, NewTask(d)), NewTask(d))
                           /\ dbTasks' = dbTasks
                           /\ lastOp' = Op("addNote", d, "ok-task")
            ELSE /\ seq' = [seq EXCEPT !.note = @ + 1]
                 /\ UNCHANGED << tasks, dbTasks >>
                 /\ lastOp' = Op("addNote", d, "ok")
       /\ UNCHANGED << session, users, dealers, regions, dbDealers, dbCoverage,
                       dealersFetch, tasksFetch, covFetch, notesFetch, viewVars >>

\* myOpenTaskForDealer: an incomplete task of this dealer for the current rep
myOpenTaskForDealer(d) ==
  IF ~isRep THEN {}
  ELSE {t \in tasks : t.dealerId = d /\ t.repUsername = session.username /\ ~t.completed}

\* DealerNotesView (showComplete): the button is rendered on a Manager note
showComplete(d) ==
  /\ \E n \in notes : n.dealerId = d /\ n.category = "Manager"
  /\ isRep
  /\ dealers[d].rep = session.username
  /\ myOpenTaskForDealer(d) # {}

SetCompleted(ts, t, v) == {IF x.id = t.id THEN [x EXCEPT !.completed = v] ELSE x : x \in ts}

RollBackNone(ts, t) == ts
\* roll back if DB failed: completedAtISO: undefined on the task with that id
RollBack(ts, t) == SetCompleted(ts, t, FALSE)

\* completeMyTask: optimistic completion, rolled back when the update fails
completeMyTask(d, ok) ==
  /\ OnDealerPage(d)
  /\ showComplete(d)
  /\ \E t \in myOpenTaskForDealer(d) :
       IF ok
         THEN /\ tasks' = SetCompleted(tasks, t, TRUE)
              /\ dbTasks' = SetCompleted(dbTasks, t, TRUE)
              /\ lastOp' = Op("completeMyTask", d, "ok")
         ELSE /\ tasks' = RollBack(SetCompleted(tasks, t, TRUE), t)
              /\ dbTasks' = dbTasks
              /\ lastOp' = Op("completeMyTask", d, "dbfail")
  /\ UNCHANGED << session, users, dealers, regions, notes, dbDealers, dbNotes, dbCoverage,
                  dealersFetch, tasksFetch, covFetch, notesFetch, seq, viewVars >>

\* doDeleteDealer: permission, confirmation text, backend delete (UUID only;
\* a failure is toasted and the local clean-up still runs), local clean-up
doDeleteDealer(d, confirmText, ok) ==
  /\ OnDealerPage(d)
  /\ IF ~(isAdminManager \/ repCanAccess(dealers[d])) THEN Rejected("doDeleteDealer", d, "denied")
     ELSE IF confirmText # dealers[d].name THEN Rejected("doDeleteDealer", d, "invalid")
     ELSE
       /\ dbDealers' = IF IsUUID(d) /\ ok THEN Drop(dbDealers, d) ELSE dbDealers
       /\ dealers' = Drop(dealers, d)
       /\ tasks' = {t \in tasks : t.dealerId # d}
       /\ notes' = {n \in notes : n.dealerId # d}
       /\ lastOp' = Op("doDeleteDealer", d, IF IsUUID(d) /\ ~ok THEN "dbfail" ELSE "ok")
       /\ UNCHANGED << session, users, regions, dbNotes, dbTasks, dbCoverage,
                       dealersFetch, tasksFetch, covFetch, notesFetch, seq, viewVars >>

(* ------------------ specification: session and dealer page --------------- *)
SeedRegions == AllRegions

\* ReportingView and RepRouteView start with "ALL" and an empty route map
Today == "d1"
\* the day the session starts on
ClockAtStart == 31
\* auth UUIDs of the users that exist when the session starts
AuthIds == {"uuid-1", "uuid-2", "uuid-3"}

InitViews ==
  /\ repFilter = "ALL"
  /\ routeByDate = [x \in {} |-> << >>]
  /\ dateStr = Today
  /\ fRep = ""
  /\ clock = ClockAtStart
  /\ authUsers = AuthIds

Init ==
  /\ session = NoSession
  /\ users = SeedUsers
  /\ dealers = SeedDealers
  /\ regions = SeedRegions
  /\ notes = {}
  /\ tasks = {}
  /\ dbDealers = InitDbDealers
  /\ dbNotes = {}
  /\ dbTasks = {}
  /\ dbCoverage = InitDbCoverage
  /\ dealersFetch = None
  /\ tasksFetch = None
  /\ covFetch = None
  /\ notesFetch = None
  /\ seq = [note |-> 0, task |-> 0]
  /\ lastOp = Op("init", "", "ok")
  /\ InitViews

Loads ==
  \/ DealersLoadApply
  \/ DealersLoadFail
  \/ CoverageLoadApply
  \/ TasksLoadApply

\* the session life cycle: login, the load effects, one dealer edit, logout
Next ==
  \/ \E i \in 1..Len(Profiles) : Login(i)
  \/ Logout
  \/ Loads
  \/ \E d \in DealerIds, st \in StatusInputs : changeStatus(d, st)

Spec == Init /\ [][Next]_vars

(* --------------- specification: dealer page, dealer fields --------------- *)
\* a session that is logged in and whose load effects have all resolved
LoggedIn(i) ==
  /\ session = [username |-> Profiles[i].username, role |-> Profiles[i].role]
  /\ users = CoverageUsers(InitDbCoverage)
  /\ dealers = InitDbDealers
  /\ regions = RebuiltCatalog(InitDbDealers)
  /\ dbDealers = InitDbDealers
  /\ dbCoverage = InitDbCoverage
  /\ dealersFetch = None
  /\ tasksFetch = None
  /\ covFetch = None
  /\ notesFetch = None
  /\ lastOp = Op("init", "", "ok")
  /\ InitViews

InitPage ==
  /\ \E i \in 1..Len(Profiles) : LoggedIn(i)
  /\ notes = {}
  /\ tasks = {}
  /\ dbNotes = {}
  /\ dbTasks = {}
  /\ seq = [note |-> 0, task |-> 0]

NextPage ==
  \/ \E d \in DealerIds, st \in StatusInputs : changeStatus(d, st)
  \/ \E d \in DealerIds, u \in RepNames \cup {NoRep} : changeAssignedRep(d, u)
  \/ \E d \in DealerIds, v \in BOOLEAN : toggleSendingDeals(d, v)
  \/ \E d \in DealerIds, v \in BOOLEAN : setReason(d, "funding", v)
  \/ \E d \in DealerIds, rg \in Regions, nm \in {"", "Acme"} :
       saveAllAndClose(d, nm, dealers[d].state, rg)
  \/ \E d \in DealerIds, c \in {"Acme", "x"}, ok \in BOOLEAN : doDeleteDealer(d, c, ok)

SpecPage == InitPage /\ [][NextPage]_vars

(* ------------------------------- claims --------------------------------- *)
\* covers(user, dealer) as the scoping rule states it: an override names
\* exactly one user and is exclusive, else state and region coverage decide
Covers(u, d) ==
  IF d.rep # NoRep THEN d.rep = u.username
  ELSE /\ d.state \in u.states
       /\ d.state \in DOMAIN u.regionsByState
       /\ d.region \in u.regionsByState[d.state]

SessionCovers(d) == Me # << >> /\ Covers(Me[1], d)

Mutating == {"ok", "dbfail", "local", "ok+task", "ok-task"}
PageOps == {"changeStatus", "toggleSendingDeals", "setReason", "saveAllAndClose",
            "addNote", "doDeleteDealer"}

\* C1: a Rep session changes a dealer's fields, status or sending-deals data,
\* adds a note to it or deletes it only if covers(user, dealer) holds; every
\* other attempt is rejected and leaves dealers, notes and tasks unchanged.
C1_RepMutatesOnlyCovered ==
  [][\A d \in DOMAIN dealers :
       (isRep /\ lastOp'.op \in PageOps /\ lastOp'.arg = d /\ ~SessionCovers(dealers[d]))
         => /\ lastOp'.res \notin Mutating
            /\ UNCHANGED << dealers, notes, tasks, dbDealers, dbNotes, dbTasks >>]_vars

(* ------------------------------- reporting ------------------------------ *)
\* ReportingView.reps = users.filter(u => u.role === "Rep"), array order kept
reps == SelectSeq(users, LAMBDA u : u.role = "Rep")

\* reps.find(r => r.username === repFilter) || null
selectedRep == FindUser(reps, repFilter)

\* does rep "cover" dealer (override OR state/region coverage)
repCoversDealer(rep, d) ==
  \/ d.rep = rep.username
  \/ (d.state \in rep.states /\ includesRegion(rep, d.state, d.region))

\* reps.find(r => repCoversDealer(r, d)) || null
FirstCoveringRep(d) ==
  LET idx == {i \in 1..Len(reps) : repCoversDealer(reps[i], d)}
  IN IF idx = {} THEN << >> ELSE << reps[CHOOSE i \in idx : \A j \in idx : i <= j] >>

\* pick the rep for a dealer: the override when it names a rep, otherwise
\* the first covering rep
getRepForDealer(d) ==
  IF d.rep # NoRep /\ FindUser(reps, d.rep) # << >>
    THEN FindUser(reps, d.rep)
    ELSE FirstCoveringRep(d)

\* dealers considered in the current view
scopedDealers ==
  IF repFilter = "ALL" THEN DOMAIN dealers
  ELSE IF selectedRep = << >> THEN {}
  ELSE {id \in DOMAIN dealers : repCoversDealer(selectedRep[1], dealers[id])}

\* sendingStats: the per-rep breakdown row a dealer is tallied in
Unassigned == "__unassigned__"
byRepKey(d) == IF getRepForDealer(d) = << >> THEN Unassigned ELSE getRepForDealer(d)[1].username
byRepRows == {byRepKey(dealers[id]) : id \in scopedDealers}

\* DealerSearchView.repNameForDealer: the override (resolved or raw), else
\* every covering rep
repNameForDealer(d) ==
  IF d.rep # NoRep THEN {d.rep}
  ELSE {users[i].username : i \in {j \in 1..Len(users) :
          /\ users[j].role = "Rep"
          /\ d.state \in users[j].states
          /\ includesRegion(users[j], d.state, d.region)}}

\* the rep selector of the reporting view
setRepFilter(r) ==
  /\ isAdminManager
  /\ repFilter' = r
  /\ lastOp' = Op("setRepFilter", r, "ok")
  /\ UNCHANGED << session, users, dealers, regions, notes, tasks, dbDealers, dbNotes,
                  dbTasks, dbCoverage, dealersFetch, tasksFetch, covFetch, notesFetch,
                  seq, routeByDate, dateStr, fRep, clock, authUsers >>

\* UserManagementView.performRemove: server-side delete attempted (a failure
\* is toasted), then the user is dropped from the local list; dealers that
\* name the user as override are left as they are
performRemove(name, ok) ==
  /\ session.role = "Admin"
  /\ FindUser(users, name) # << >>
  /\ name # session.username
  /\ users' = SelectSeq(users, LAMBDA u : u.username # name)
  /\ lastOp' = Op("performRemove", name, IF ok THEN "ok" ELSE "dbfail")
  /\ UNCHANGED << session, dealers, regions, notes, tasks, dbDealers, dbNotes,
                  dbTasks, dbCoverage, dealersFetch, tasksFetch, covFetch, notesFetch,
                  seq, viewVars >>

(* ---------------------- specification: reporting view -------------------- *)
\* dealer rows as the add dealer form and reassignment produce them
ReportDealerRows ==
  [name : {"Acme"}, state : {"IL"}, region : Regions, status : StatusInputs,
   rep : {NoRep, "rep1", "rep2"}, sending : {"unknown"},
   reasons : {NoReasons}, lastVisited : {0}]

InitReport ==
  /\ session = [username |-> "pronto", role |-> "Admin"]
  /\ users = CoverageUsers(InitDbCoverage)
  /\ dealers \in [{"u1", "u2"} -> ReportDealerRows]
  /\ dbDealers = dealers
  /\ regions = RebuiltCatalog(dealers)
  /\ notes = {}
  /\ tasks = {}
  /\ dbNotes = {}
  /\ dbTasks = {}
  /\ dbCoverage = InitDbCoverage
  /\ dealersFetch = None
  /\ tasksFetch = None
  /\ covFetch = None
  /\ notesFetch = None
  /\ seq = [note |-> 0, task |-> 0]
  /\ lastOp = Op("init", "", "ok")
  /\ InitViews

NextReport ==
  \/ \E r \in RepNames \cup {"ALL"} : setRepFilter(r)
  \/ \E u \in RepNames, ok \in BOOLEAN : performRemove(u, ok)

SpecReport == InitReport /\ [][NextReport]_vars

\* C2: for a dealer whose assignedRepUsername is X, the rep attributed to it
\* in reporting (attribution and per-rep breakdown row) is exactly X when X
\* resolves to a known user and no rep at all (unassigned) when it does not,
\* however many users' coverage matches the dealer.
C2_OverrideAttribution ==
  \A id \in DOMAIN dealers :
    LET d == dealers[id] IN
      d.rep # NoRep =>
        IF FindUser(users, d.rep) # << >>
          THEN /\ getRepForDealer(d) # << >>
               /\ getRepForDealer(d)[1].username = d.rep
               /\ byRepKey(d) = d.rep
          ELSE /\ getRepForDealer(d) = << >>
               /\ byRepKey(d) = Unassigned

\* C3: with a specific rep selected, scopedDealers is exactly the set of
\* dealers d with covers(rep, d): override names that rep, or no override and
\* the rep's state/region coverage contains d; never another rep's override.
C3_ScopedIsCovers ==
  (repFilter # "ALL" /\ selectedRep # << >>) =>
    scopedDealers = {id \in DOMAIN dealers : Covers(selectedRep[1], dealers[id])}

(* ------------------------------ route planner --------------------------- *)
Dates == {"d1", "d2"}
\* cap on the position counter (max + 1 grows without bound in the code)
MaxPos == 3

\* route = routeByDate[dateStr] || []
RouteOf(rb, date) == IF date \in DOMAIN rb THEN rb[date] ELSE << >>
route == RouteOf(routeByDate, dateStr)
routeIds == {route[i].dealerId : i \in DOMAIN route}

\* Array.prototype.sort((a, b) => a.position - b.position): stable
RECURSIVE InsertByPos(_, _)
InsertByPos(sorted, r) ==
  IF sorted = << >> THEN << r >>
  ELSE IF r.position < Head(sorted).position THEN << r >> \o sorted
  ELSE << Head(sorted) >> \o InsertByPos(Tail(sorted), r)

RECURSIVE SortByPos(_)
SortByPos(arr) ==
  IF arr = << >> THEN << >>
  ELSE InsertByPos(SortByPos(SubSeq(arr, 1, Len(arr) - 1)), arr[Len(arr)])

\* accessible dealers for this rep (assignment OR coverage)
canRoute(d) ==
  /\ Me # << >>
  /\ \/ d.rep = Me[1].username
     \/ (d.state \in Me[1].states /\ includesRegion(Me[1], d.state, d.region))
accessibleDealers == {id \in DOMAIN dealers : canRoute(dealers[id])}

\* search results offered for adding: accessible and not already in the route
filtered == {id \in accessibleDealers : id \notin routeIds}

\* the displayed route: stops whose dealer exists, in position order
sortedRoute == SortByPos(SelectSeq(route, LAMBDA r : r.dealerId \in DOMAIN dealers))
\* the dealers that have a row (and so the move/remove buttons) in the displayed route
displayedIds == routeIds \cap DOMAIN dealers

MaxOf(S) == CHOOSE x \in S : \A y \in S : y <= x

RouteFrame == UNCHANGED << session, users, dealers, regions, notes, tasks, dbDealers, dbNotes,
                           dbTasks, dbCoverage, dealersFetch, tasksFetch, covFetch,
                           notesFetch, seq, repFilter, fRep, clock, authUsers >>

InRouteNever(current, id) == FALSE
\* current.some(r => r.dealerId === d.id)
InRoute(current, id) == \E i \in DOMAIN current : current[i].dealerId = id

\* RepRouteView.addDealer(d), from the Add button of a search result; the
\* updater reads the latest route, so a second click that arrives before the
\* list is rendered again finds the dealer present
routeAddDealer(id) ==
  /\ isRep
  /\ id \in accessibleDealers
  /\ LET current == RouteOf(routeByDate, dateStr)
         nextPos == IF Len(current) > 0
                      THEN MaxOf({current[i].position : i \in DOMAIN current}) + 1
                      ELSE 1
     IN /\ nextPos <= MaxPos
        /\ IF InRoute(current, id)
             THEN /\ routeByDate' = routeByDate
                  /\ lastOp' = Op("routeAdd", "", "present")
             ELSE /\ routeByDate' = Put(routeByDate, dateStr,
                                        Append(current, [dealerId |-> id, position |-> nextPos]))
                  /\ lastOp' = Op("routeAdd", "", "ok")
  /\ UNCHANGED dateStr
  /\ RouteFrame

\* RepRouteView.removeDealer(dealerId), from a displayed stop
routeRemoveDealer(id) ==
  /\ isRep
  /\ id \in displayedIds
  /\ routeByDate' = Put(routeByDate, dateStr,
                        SelectSeq(RouteOf(routeByDate, dateStr), LAMBDA r : r.dealerId # id))
  /\ lastOp' = Op("routeRemove", "", "ok")
  /\ UNCHANGED dateStr
  /\ RouteFrame

\* arr.findIndex(r => r.dealerId === dealerId), 1-based, 0 when absent
FindIndex(arr, id) ==
  LET hits == {i \in DOMAIN arr : arr[i].dealerId = id}
  IN IF hits = {} THEN 0 ELSE CHOOSE i \in hits : \A j \in hits : i <= j

SwapPositionsNone(arr, i, j) == arr
\* const tmp = a.position; a.position = b.position; b.position = tmp
SwapPositions(arr, i, j) ==
  [arr EXCEPT ![i].position = arr[j].position, ![j].position = arr[i].position]

\* RepRouteView.move(dealerId, dir), from a displayed stop: sort the day's
\* stops by position and swap the position values of the stop and its neighbour
routeMove(id, dir) ==
  /\ isRep
  /\ id \in displayedIds
  /\ \E arr \in {SortByPos(RouteOf(routeByDate, dateStr))} :
     \E idx \in {FindIndex(arr, id)} :
       LET swapIdx == IF dir = "up" THEN idx - 1 ELSE idx + 1
       IN IF idx < 1 \/ swapIdx < 1 \/ swapIdx > Len(arr)
            THEN routeByDate' = routeByDate /\ lastOp' = Op("routeMove", id, dir)
            ELSE /\ routeByDate' = Put(routeByDate, dateStr, SwapPositions(arr, idx, swapIdx))
                 /\ lastOp' = Op("routeMove", id, dir)
  /\ UNCHANGED dateStr
  /\ RouteFrame

\* RepRouteView.clearDay (confirmed)
clearDay ==
  /\ isRep
  /\ Len(RouteOf(routeByDate, dateStr)) > 0
  /\ routeByDate' = Put(routeByDate, dateStr, << >>)
  /\ lastOp' = Op("clearDay", "", "ok")
  /\ UNCHANGED dateStr
  /\ RouteFrame

\* the date picker
setDateStr(date) ==
  /\ isRep
  /\ dateStr' = date
  /\ lastOp' = Op("setDateStr", "", "ok")
  /\ UNCHANGED routeByDate
  /\ RouteFrame

(* ----------------------- specification: route planner -------------------- *)
RouteDealers ==
  [id \in {"u1", "u2", "u3"} |->
     [name |-> "Acme", state |-> "IL",
      region |-> IF id = "u2" THEN "North" ELSE "South",
      status |-> "Active",
      rep |-> IF id = "u1" THEN "rep1" ELSE NoRep,
      sending |-> "unknown", reasons |-> NoReasons, lastVisited |-> 0]]

InitRoute ==
  /\ session = [username |-> "rep2", role |-> "Rep"]
  /\ users = CoverageUsers(InitDbCoverage)
  /\ dealers = RouteDealers
  /\ dbDealers = RouteDealers
  /\ regions = RebuiltCatalog(RouteDealers)
  /\ notes = {}
  /\ tasks = {}
  /\ dbNotes = {}
  /\ dbTasks = {}
  /\ dbCoverage = InitDbCoverage
  /\ dealersFetch = None
  /\ tasksFetch = None
  /\ covFetch = None
  /\ notesFetch = None
  /\ seq = [note |-> 0, task |-> 0]
  /\ lastOp = Op("init", "", "ok")
  /\ InitViews

NextRoute ==
  \/ \E id \in DealerIds : routeAddDealer(id)
  \/ \E id \in DealerIds : routeRemoveDealer(id)
  \/ \E id \in DealerIds, dir \in {"up", "down"} : routeMove(id, dir)
  \/ clearDay
  \/ \E date \in Dates : setDateStr(date)
  \/ doDeleteDealer("u3", "Acme", TRUE)

SpecRoute == InitRoute /\ [][NextRoute]_vars

\* C6: a dealer is added to a Rep's route only if covers(user, dealer) holds
\* at the time of the add; a dealer whose override names another rep can
\* never be added.
C6_RouteAddOnlyCovered ==
  [][\A id \in DOMAIN dealers :
       (id \notin routeIds /\ \E i \in DOMAIN route' : route'[i].dealerId = id)
         => SessionCovers(dealers[id])]_vars

(* ------------------- specification: dealer page, notes ------------------- *)
NotesDealers ==
  [id \in {"u1", "u2"} |->
     [name |-> "Acme", state |-> "IL",
      region |-> IF id = "u2" THEN "North" ELSE "South",
      status |-> "Active",
      rep |-> IF id = "u1" THEN "rep1" ELSE NoRep,
      sending |-> "unknown", reasons |-> NoReasons, lastVisited |-> 0]]

InitNotes ==
  /\ \E i \in 1..Len(Profiles) :
       session = [username |-> Profiles[i].username, role |-> Profiles[i].role]
  /\ users = CoverageUsers(InitDbCoverage)
  /\ dealers = NotesDealers
  /\ dbDealers = NotesDealers
  /\ regions = RebuiltCatalog(NotesDealers)
  /\ notes = {}
  /\ tasks = {}
  /\ dbNotes = {}
  /\ dbTasks = {}
  /\ dbCoverage = InitDbCoverage
  /\ dealersFetch = None
  /\ tasksFetch = None
  /\ covFetch = None
  /\ notesFetch = None
  /\ seq = [note |-> 0, task |-> 0]
  /\ lastOp = Op("init", "", "ok")
  /\ InitViews

NextNotes ==
  \/ \E d \in {"u1", "u2"}, cat \in {"Visit", "Manager"}, text \in {"", "hi"},
        authOk \in BOOLEAN, noteOk \in BOOLEAN, taskOk \in BOOLEAN :
       addNote(d, cat, text, authOk, noteOk, taskOk)
  \/ \E d \in {"u1", "u2"} : NotesLoadIssue(d)
  \/ NotesLoadApply
  \/ \E d \in {"u1", "u2"}, ok \in BOOLEAN : doDeleteDealer(d, "Acme", ok)

SpecNotes == InitNotes /\ [][NextNotes]_vars

\* the role the profiles table records for a username
RoleOf(name) ==
  LET idx == {i \in 1..Len(Profiles) : Profiles[i].username = name}
  IN IF idx = {} THEN "" ELSE Profiles[CHOOSE i \in idx : TRUE].role

\* C4: no note with category Manager is ever created, in local state or in
\* the backend, by a session whose role is Rep; only Admin and Manager
\* sessions add Manager notes.
C4_NoManagerNoteByRep ==
  \A n \in notes \cup dbNotes :
    n.category = "Manager" => RoleOf(n.authorUsername) \in {"Admin", "Manager"}

\* C5: every task that is ever created targets a Rep: its repUsername is the
\* username of a user whose role is Rep.
C5_TaskTargetsRep ==
  \A t \in tasks \cup dbTasks : RoleOf(t.repUsername) = "Rep"

\* C10 as stated: once a note has been created no operation changes its
\* dealer, category, author, text or timestamp, and no operation removes it.
C10_NotesNeverChangeOrVanish ==
  [][/\ notes \subseteq notes'
     /\ dbNotes \subseteq dbNotes']_vars

\* C10: once a note has been created no operation changes its dealer,
\* category, author, text or timestamp, and the client never removes its
\* backend row; the note leaves the local list only when its dealer is
\* deleted (the delete drops the dealer's notes) or when a notes reload for
\* its dealer applies a backend result that does not contain it.
C10_NotesImmutable ==
  [][/\ dbNotes \subseteq dbNotes'
     /\ \A n \in notes :
          \/ n \in notes'
          \/ /\ \A m \in notes' : m.id # n.id
             /\ lastOp'.arg = n.dealerId
             /\ \/ lastOp'.op = "doDeleteDealer" /\ lastOp'.res \in {"ok", "dbfail"}
                \/ lastOp'.op = "notesLoad" /\ lastOp'.res = "ok"]_vars

\* a notes reload of a dealer has just dropped a note that the backend holds
C10_Witness ==
  /\ lastOp.op = "notesLoad"
  /\ lastOp.res = "ok"
  /\ \E n \in dbNotes : n.dealerId = lastOp.arg /\ n \notin notes
  /\ \E n \in notes : n.dealerId # lastOp.arg

(* ----------------------------- regions catalog --------------------------- *)
RegionKey(st, rg) == st \o "/" \o rg

\* ensureRegionInCatalog(state, region): add the region under the state
ensureRegionInCatalog(cat, st, rg) == [cat EXCEPT ![st] = @ \cup {rg}]

\* any new catalog object re-runs the coverage load effect (deps [session, regions])
CoverageRefetch == IF session # NoSession THEN << dbCoverage >> ELSE covFetch

dealerCountForNone(st, rg) == 0
\* dealers.filter((d) => d.state === st && d.region === rg).length
dealerCountFor(st, rg) ==
  Cardinality({id \in DOMAIN dealers : dealers[id].state = st /\ dealers[id].region = rg})

RegionsFrame == UNCHANGED << session, notes, tasks, dbNotes, dbTasks, dbCoverage,
                             dealersFetch, tasksFetch, notesFetch, seq, viewVars >>

\* UserManagementView.createRegion
createRegion(st, rg) ==
  /\ session.role = "Admin"
  /\ IF st = "" \/ rg = ""
       THEN Rejected("createRegion", RegionKey(st, rg), "invalid")
       ELSE /\ regions' = ensureRegionInCatalog(regions, st, rg)
            /\ covFetch' = CoverageRefetch
            /\ lastOp' = Op("createRegion", RegionKey(st, rg), "ok")
            /\ UNCHANGED << users, dealers, dbDealers >>
            /\ RegionsFrame

\* UserManagementView.deleteRegion, from the row of a catalog region: refused
\* while dealers exist there, else the region leaves the catalog and every
\* user's regionsByState (local state only)
deleteRegion(st, rg) ==
  /\ session.role = "Admin"
  /\ rg \in regions[st]
  /\ IF dealerCountFor(st, rg) > 0
       THEN Rejected("deleteRegion", RegionKey(st, rg), "blocked")
       ELSE /\ regions' = [regions EXCEPT ![st] = @ \ {rg}]
            /\ users' = [i \in 1..Len(users) |->
                           IF st \in DOMAIN users[i].regionsByState
                             THEN [users[i] EXCEPT !.regionsByState[st] = @ \ {rg}]
                             ELSE users[i]]
            /\ covFetch' = CoverageRefetch
            /\ lastOp' = Op("deleteRegion", RegionKey(st, rg), "ok")
            /\ UNCHANGED << dealers, dbDealers >>
            /\ RegionsFrame

\* UserManagementView.moveDealers (bulk move, local state only)
moveDealers(fromState, fromRegion, toState, toRegion) ==
  /\ session.role = "Admin"
  /\ IF dealerCountFor(fromState, fromRegion) = 0
       THEN Rejected("moveDealers", RegionKey(fromState, fromRegion), "invalid")
       ELSE /\ regions' = ensureRegionInCatalog(regions, toState, toRegion)
            /\ dealers' = [id \in DOMAIN dealers |->
                             IF dealers[id].state = fromState /\ dealers[id].region = fromRegion
                               THEN [dealers[id] EXCEPT !.state = toState, !.region = toRegion]
                               ELSE dealers[id]]
            /\ covFetch' = CoverageRefetch
            /\ lastOp' = Op("moveDealers", RegionKey(fromState, fromRegion), "ok")
            /\ UNCHANGED << users, dbDealers >>
            /\ RegionsFrame

validateFormNone(name, st, rg, rep) == FALSE
\* DealerSearchView.validateForm: TRUE when the form is refused (a required
\* field is empty; the assigned rep is required unless a Rep is adding)
validateForm(name, st, rg, rep) ==
  \/ name = ""
  \/ st = ""
  \/ rg = ""
  \/ (session.role # "Rep" /\ rep = NoRep)

\* DealerSearchView.addDealer: validation, then the catalog is extended, then
\* the row is inserted and, when the insert succeeds, prepended to the local list
addDealer(id, name, st, rg, rep, ok) ==
  /\ session # NoSession
  /\ id \notin (DOMAIN dealers) \cup (DOMAIN dbDealers)
  /\ IF validateForm(name, st, rg, rep)
       THEN Rejected("addDealer", name, "invalid")
       ELSE
         /\ LET assignedRep == IF session.role = "Rep" THEN session.username ELSE rep
                row == [name |-> name, state |-> st, region |-> rg, status |-> "Active",
                        rep |-> assignedRep, sending |-> "unknown", reasons |-> NoReasons,
                        lastVisited |-> 0]
            IN /\ regions' = ensureRegionInCatalog(regions, st, rg)
               /\ covFetch' = CoverageRefetch
               /\ IF ok
                    THEN /\ dbDealers' = Put(dbDealers, id, row)
                         /\ dealers' = Put(dealers, id, row)
                         /\ lastOp' = Op("addDealer", name, "ok")
                    ELSE /\ UNCHANGED << dealers, dbDealers >>
                         /\ lastOp' = Op("addDealer", name, "dbfail")
         /\ UNCHANGED users
         /\ RegionsFrame

(* ---------------------- specification: regions catalog ------------------- *)
RegionsDealers ==
  [id \in {"u1", "u2"} |->
     [name |-> "Acme", state |-> "IL",
      region |-> IF id = "u2" THEN "North" ELSE "South",
      status |-> "Active", rep |-> NoRep,
      sending |-> "unknown", reasons |-> NoReasons, lastVisited |-> 0]]

RegionsCoverage ==
  { <<"rep1", "IL", "South">>, <<"rep2", "IL", "North">>, <<"rep2", "IL", "South">> }

\* the Admin is logged in and every load effect has resolved
InitRegions ==
  /\ session = [username |-> "pronto", role |-> "Admin"]
  /\ users = CoverageUsers(RegionsCoverage)
  /\ dealers = RegionsDealers
  /\ dbDealers = RegionsDealers
  /\ regions = RebuiltCatalog(RegionsDealers)
  /\ notes = {}
  /\ tasks = {}
  /\ dbNotes = {}
  /\ dbTasks = {}
  /\ dbCoverage = RegionsCoverage
  /\ dealersFetch = None
  /\ tasksFetch = None
  /\ covFetch = None
  /\ notesFetch = None
  /\ seq = [note |-> 0, task |-> 0]
  /\ lastOp = Op("init", "", "ok")
  /\ InitViews

NextRegions ==
  \/ \E st \in States, rg \in Regions \cup {""} : createRegion(st, rg)
  \/ \E st \in States, rg \in Regions : deleteRegion(st, rg)
  \/ \E fs \in States, fr \in Regions, ts \in States, tr \in Regions :
       moveDealers(fs, fr, ts, tr)
  \/ \E rg \in Regions, ok \in BOOLEAN : addDealer("u3", "Zed", "TX", rg, "rep1", ok)
  \/ Logout
  \/ Login(2)
  \/ Loads

SpecRegions == InitRegions /\ [][NextRegions]_vars

\* some dealer currently has that state and region
Referenced(st, rg) ==
  \E id \in DOMAIN dealers : dealers[id].state = st /\ dealers[id].region = rg

\* C7: deleteRegion(state, region) removes the region from the catalog only
\* if no dealer currently has that state and region; when at least one dealer
\* references it, the catalog and every user's coverage are left unchanged.
C7_DeleteRegionGuarded ==
  [][\A st \in States, rg \in Regions :
       (lastOp'.op = "deleteRegion" /\ lastOp'.arg = RegionKey(st, rg)) =>
         /\ (rg \in regions[st] /\ rg \notin regions'[st]) => ~Referenced(st, rg)
         /\ Referenced(st, rg) => UNCHANGED << regions, users >>]_vars

\* a deleteRegion on a region that dealers reference has just been refused
C7_Witness ==
  /\ lastOp.op = "deleteRegion"
  /\ lastOp.res = "blocked"
  /\ \E st \in States, rg \in Regions :
       lastOp.arg = RegionKey(st, rg) /\ Referenced(st, rg) /\ rg \in regions[st]

\* C8: apart from an explicit region deletion, no operation (adding a dealer,
\* creating a region, moving dealers, logging in and reloading dealers from
\* the backend) removes a region or a state from the regions catalog.
C8_CatalogOnlyShrinksByDelete ==
  [][(\E st \in States : ~(regions[st] \subseteq regions'[st]))
       => (lastOp'.op = "deleteRegion" /\ lastOp'.res = "ok")]_vars

\* C9: after any sequence of region creations and deletions and backend
\* reloads, every region listed in any user's regionsByState[s] is a member
\* of the catalog's region list for state s.
C9_CoverageWithinCatalog ==
  \A i \in 1..Len(users) : \A st \in DOMAIN users[i].regionsByState :
    users[i].regionsByState[st] \subseteq regions[st]

(* ------------------------------ user management -------------------------- *)
\* rows built from the modal selections: for (const st of draft.states)
\* for (const rg of draft.regionsByState[st]) rows.push({user_id, state, region})
CoverageRows(name, sts, rbs) == UNION {{<<name, st, rg>> : rg \in rbs[st]} : st \in sts}

\* drafts the user modal can hold: toggleStateForDraft gives a selected state
\* a key (an empty region list at first) and deletes the key of a state that
\* is unselected
Drafts ==
  UNION {[states : {sts}, regionsByState : [sts -> SUBSET Regions]] : sts \in SUBSET States}

UsersFrame == UNCHANGED << session, dealers, regions, notes, tasks, dbDealers, dbNotes,
                           dbTasks, dealersFetch, tasksFetch, covFetch, notesFetch,
                           seq, viewVars >>

\* UserManagementView.saveUser.  editing = "" is the add-user modal, else the
\* username of the (backend-loaded) user being edited; name and username are
\* the draft's text fields.  Validation, optimistic local update, then for an
\* edited user the profile update and the replacement of its rep_coverage rows
saveUser(editing, name, username, dr, res) ==
  /\ session.role = "Admin"
  /\ editing # "" => FindUser(users, editing) # << >>
  /\ LET usernameTaken == \E i \in 1..Len(users) :
                             users[i].username = username /\ users[i].username # editing
         draft == [username |-> username,
                   role |-> IF editing = "" THEN "Rep" ELSE FindUser(users, editing)[1].role,
                   states |-> dr.states, regionsByState |-> dr.regionsByState]
         old == {r \in dbCoverage : r[1] = editing}
         rows == CoverageRows(editing, dr.states, dr.regionsByState)
     IN IF name = "" \/ username = "" THEN Rejected("saveUser", username, "invalid")
        ELSE IF usernameTaken THEN Rejected("saveUser", username, "invalid")
        ELSE IF editing = ""
          THEN /\ res = "local"
               /\ users' = << draft >> \o users
               /\ dbCoverage' = dbCoverage
               /\ lastOp' = Op("saveUser", username, "local")
               /\ UsersFrame
          ELSE /\ res \in {"ok", "dbfail-profile", "dbfail-delete", "dbfail-upsert"}
               /\ res = "dbfail-upsert" => rows # {}
               /\ users' = [i \in 1..Len(users) |->
                              IF users[i].username = editing THEN draft ELSE users[i]]
               /\ dbCoverage' = CASE res = "ok" -> (dbCoverage \ old) \cup rows
                                   [] res = "dbfail-upsert" -> dbCoverage \ old
                                   [] OTHER -> dbCoverage
               /\ lastOp' = Op("saveUser", username, res)
               /\ UsersFrame

(* ---------------------- specification: user management ------------------- *)
SaveResults == {"local", "ok", "dbfail-profile", "dbfail-delete", "dbfail-upsert"}

\* the drafts tried: nothing selected, Illinois with no region, Illinois/North
UserDrafts ==
  {dr \in Drafts : dr.states \subseteq {"IL"} /\ \A st \in dr.states : dr.regionsByState[st] \subseteq {"North"}}

NextUsers ==
  \/ \E nm \in {"", "n"}, un \in {"", "rep1", "rep3"} :
       saveUser("", nm, un, [states |-> {}, regionsByState |-> NoRegions], "local")
  \/ \E nm \in {"", "n"}, un \in {"", "rep1", "rep2"}, dr \in UserDrafts, res \in SaveResults :
       saveUser("rep1", nm, un, dr, res)
  \/ \E nm \in {"", "Zed"}, rep \in {NoRep, "rep1"}, ok \in BOOLEAN :
       addDealer("u3", nm, "TX", "North", rep, ok)
  \/ \E c \in {"Acme", "x"}, ok \in BOOLEAN : doDeleteDealer("u1", c, ok)
  \/ CoverageLoadApply

SpecUsers == InitRegions /\ [][NextUsers]_vars

\* C11: a validation failure (a missing required field when adding a dealer,
\* a missing name or username or a duplicate username when saving a user, a
\* confirmation text different from the dealer name when deleting a dealer)
\* aborts the operation before any mutation: no local collection changes and
\* no backend write is issued.
C11_ValidationAborts ==
  [][(\/ lastOp'.res = "invalid"
      \/ (lastOp'.op \in {"addDealer", "saveUser"} /\ lastOp'.arg = "")
      \/ (lastOp'.op = "saveUser" /\ lastOp'.arg = "rep2" /\ FindUser(users, "rep2") # << >>))
       => UNCHANGED << dealers, users, notes, tasks, regions,
                       dbDealers, dbNotes, dbTasks, dbCoverage >>]_vars

\* an add-dealer form with an empty name has just been refused, after
\* earlier operations had changed users and dealers
C11_Witness ==
  /\ lastOp.op = "addDealer"
  /\ lastOp.arg = ""
  /\ lastOp.res = "invalid"
  /\ users # CoverageUsers(RegionsCoverage)

(* ------------------- specification: manager notes and tasks -------------- *)
\* App.tasksForUser: the open tasks listed for the logged-in rep
tasksForUser ==
  IF session = NoSession \/ session.role # "Rep" THEN {}
  ELSE {t \in tasks : t.repUsername = session.username /\ ~t.completed}

\* the Admin is logged in on a fresh backend; the Admin writes Manager notes,
\* logs out, and a rep logs in and works on the tasks
InitTasks ==
  /\ session = [username |-> "pronto", role |-> "Admin"]
  /\ users = CoverageUsers(InitDbCoverage)
  /\ dealers = NotesDealers
  /\ dbDealers = NotesDealers
  /\ regions = RebuiltCatalog(NotesDealers)
  /\ notes = {}
  /\ tasks = {}
  /\ dbNotes = {}
  /\ dbTasks = {}
  /\ dbCoverage = InitDbCoverage
  /\ dealersFetch = None
  /\ tasksFetch = None
  /\ covFetch = None
  /\ notesFetch = None
  /\ seq = [note |-> 0, task |-> 0]
  /\ lastOp = Op("init", "", "ok")
  /\ InitViews

NextTasks ==
  \/ \E d \in {"u1", "u2"}, cat \in {"Visit", "Manager"}, taskOk \in BOOLEAN :
       addNote(d, cat, "hi", TRUE, TRUE, taskOk)
  \/ \E d \in {"u1", "u2"}, ok \in BOOLEAN : completeMyTask(d, ok)
  \/ Logout
  \/ \E i \in {2, 3} : Login(i)
  \/ Loads

SpecTasks == InitTasks /\ [][NextTasks]_vars

\* C12: if the backend write that completes a task fails, the task's
\* completion mark is unset again in local state, so the task is open and is
\* again listed among the target rep's open tasks.
C12_CompletionRolledBack ==
  [][(lastOp'.op = "completeMyTask" /\ lastOp'.res = "dbfail") =>
       /\ \A t \in tasks :
            (t.dealerId = lastOp'.arg /\ t.repUsername = session.username /\ ~t.completed)
              => t \in tasksForUser'
       /\ tasks' = tasks
       /\ dbTasks' = dbTasks]_vars

\* a failed completion has just been rolled back and the task is listed again
C12_Witness ==
  /\ lastOp.op = "completeMyTask"
  /\ lastOp.res = "dbfail"
  /\ \E t \in tasksForUser : t.dealerId = lastOp.arg

\* C13: when an Admin or Manager adds a Manager note and the note write
\* succeeds but the task write fails, the note is present in local state and
\* in the backend, no task for it remains in local state or in the backend,
\* and the task write is not retried (a task row only ever appears in the
\* backend in the addNote step that also wrote its note).
C13_NoteWithoutTask ==
  [][/\ (lastOp'.op = "addNote" /\ lastOp'.res = "ok-task") =>
          /\ \E n \in (notes' \cap dbNotes') \ (notes \cup dbNotes) :
               n.category = "Manager" /\ n.dealerId = lastOp'.arg
          /\ tasks' = tasks
          /\ dbTasks' = dbTasks
     /\ (\E t \in dbTasks' : \A x \in dbTasks : x.id # t.id) =>
          /\ lastOp'.op = "addNote"
          /\ lastOp'.res = "ok+task"
          /\ dbNotes' # dbNotes]_vars

\* a Manager note has just been written while its task write failed: the
\* dealer has the note and no task
C13_Witness ==
  /\ lastOp.op = "addNote"
  /\ lastOp.res = "ok-task"
  /\ isAdminManager
  /\ \E n \in notes \cap dbNotes : n.category = "Manager" /\ n.dealerId = lastOp.arg
  /\ \A t \in tasks \cup dbTasks : t.dealerId # lastOp.arg

FieldOps == {"changeStatus", "changeAssignedRep", "toggleSendingDeals", "setReason",
             "saveAllAndClose"}

\* C14: if the backend write of a dealer field update fails, the local
\* dealer keeps the new field values (no rollback) while the backend row is
\* untouched, so local state and backend differ on those fields.
C14_NoRollbackOnFailedWrite ==
  [][\A d \in DOMAIN dealers :
       (lastOp'.op \in FieldOps /\ lastOp'.arg = d /\ lastOp'.res = "dbfail") =>
         /\ d \in DOMAIN dealers'
         /\ \A f \in DOMAIN dealers[d] :
              dealers'[d][f] = IF f \in DOMAIN lastOp'.patch THEN lastOp'.patch[f]
                                                             ELSE dealers[d][f]
         /\ dbDealers' = dbDealers]_vars

\* a field update has just failed in the backend and the local dealer now
\* differs from its backend row on a patched field
C14_Witness ==
  /\ lastOp.op \in FieldOps
  /\ lastOp.res = "dbfail"
  /\ lastOp.arg \in (DOMAIN dealers) \cap (DOMAIN dbDealers)
  /\ \E f \in DOMAIN lastOp.patch :
       /\ dealers[lastOp.arg][f] = lastOp.patch[f]
       /\ dbDealers[lastOp.arg][f] # lastOp.patch[f]

(* ------------------ specification: two sessions, one dealer -------------- *)
\* the backend write of updateDealer issued by another browser session: only
\* the shared backend is touched here, that session's local state is its own
remoteUpdateDealer(d, patch) ==
  /\ d \in DOMAIN dbDealers
  /\ dbDealers' = dbUpdate(dbDealers, d, patch)
  /\ lastOp' = OpPatch("remoteUpdateDealer", d, "ok", patch)
  /\ UNCHANGED << session, users, dealers, regions, notes, tasks, dbNotes, dbTasks,
                  dbCoverage, dealersFetch, tasksFetch, covFetch, notesFetch, seq,
                  viewVars >>

InitConc ==
  /\ LoggedIn(2)
  /\ notes = {}
  /\ tasks = {}
  /\ dbNotes = {}
  /\ dbTasks = {}
  /\ seq = [note |-> 0, task |-> 0]

NextConc ==
  \/ \E st \in StatusInputs : changeStatus("u1", st)
  \/ \E v \in BOOLEAN : toggleSendingDeals("u1", v)
  \/ \E rg \in Regions : saveAllAndClose("u1", "Acme", "IL", rg)
  \/ \E patch \in {[status |-> "Inactive"], [status |-> "Active"],
                    [sending |-> "yes", reasons |-> NoReasons],
                    [sending |-> "no", reasons |-> [funding |-> TRUE]],
                    [rep |-> "rep2"]} :
       remoteUpdateDealer("u1", patch)

SpecConc == InitConc /\ [][NextConc]_vars

BackendWrites == FieldOps \cup {"remoteUpdateDealer"}

\* C15: when two sessions update the same dealer there is no version check:
\* each backend write overwrites exactly the fields it carries, whatever the
\* writer's local copy or the current row holds, so every field ends with the
\* value of the last write that carried it, and a field that a write does
\* not carry keeps its previous backend value.
C15_LastWriteWinsPerField ==
  [][\A d \in DOMAIN dbDealers :
       (lastOp'.op \in BackendWrites /\ lastOp'.arg = d /\ lastOp'.res = "ok") =>
         /\ d \in DOMAIN dbDealers'
         /\ \A f \in DOMAIN dbDealers[d] :
              dbDealers'[d][f] = IF f \in DOMAIN lastOp'.patch THEN lastOp'.patch[f]
                                                               ELSE dbDealers[d][f]]_vars

\* this session has just written a field while its local copy was stale: a
\* field it did not carry keeps the other session's value in the backend and
\* differs from the local copy
C15_Witness ==
  /\ lastOp.op \in FieldOps
  /\ lastOp.res = "ok"
  /\ lastOp.arg \in (DOMAIN dealers) \cap (DOMAIN dbDealers)
  /\ \E f \in DOMAIN lastOp.patch : dbDealers[lastOp.arg][f] = lastOp.patch[f]
  /\ \E g \in (DOMAIN dbDealers[lastOp.arg]) \ (DOMAIN lastOp.patch) :
       dbDealers[lastOp.arg][g] # dealers[lastOp.arg][g]

\* no dealer id appears twice among the stops of any day
NoDuplicateStops(rb) ==
  \A date \in DOMAIN rb : \A i, j \in DOMAIN rb[date] :
    rb[date][i].dealerId = rb[date][j].dealerId => i = j

\* C16: in any one day's route, after any sequence of add, remove, move,
\* clear and date-switch operations, each dealer id appears at most once;
\* adding a dealer that is already in that day's route leaves the route
\* unchanged, and any other add appends one stop for a dealer not yet there.
C16_RouteNoDuplicates ==
  [][/\ NoDuplicateStops(routeByDate')
     /\ lastOp'.op = "routeAdd" =>
          \/ routeByDate' = routeByDate
          \/ /\ Len(route') = Len(route) + 1
             /\ SubSeq(route', 1, Len(route)) = route
             /\ route'[Len(route')].dealerId \notin routeIds]_vars

\* an add of a dealer that was already in the day's route has just been
\* ignored, on a day that holds several stops
C16_Witness ==
  /\ lastOp.op = "routeAdd"
  /\ lastOp.res = "present"
  /\ Len(route) >= 2

\* the position value of dealer id's stop in the stop list r
PositionOf(r, id) == r[FindIndex(r, id)].position
Positions(r) == {r[i].position : i \in DOMAIN r}
StopIds(r) == {r[i].dealerId : i \in DOMAIN r}
MinOf(S) == CHOOSE x \in S : \A y \in S : x <= y

\* C17: move up/down on a stop exchanges the position values of that stop
\* and of the stop next to it in position order and changes nothing else: the
\* day keeps the same stops and the same set of position values, every other
\* stop keeps its position, every other day and the selected date are
\* untouched; moving the first stop up or the last stop down changes nothing.
C17_MoveSwapsAdjacent ==
  [][lastOp'.op = "routeMove" =>
       LET id == lastOp'.arg
           me == PositionOf(route, id)
           beyond == IF lastOp'.res = "up" THEN {p \in Positions(route) : p < me}
                                          ELSE {p \in Positions(route) : p > me}
       IN /\ dateStr' = dateStr
          /\ \A dt \in Dates \ {dateStr} : RouteOf(routeByDate', dt) = RouteOf(routeByDate, dt)
          /\ IF beyond = {}
               THEN routeByDate' = routeByDate
               ELSE LET other == IF lastOp'.res = "up" THEN MaxOf(beyond) ELSE MinOf(beyond)
                    IN /\ Len(route') = Len(route)
                       /\ StopIds(route') = StopIds(route)
                       /\ Positions(route') = Positions(route)
                       /\ \A d \in StopIds(route) :
                            PositionOf(route', d) =
                              IF d = id THEN other
                              ELSE IF PositionOf(route, d) = other THEN me
                              ELSE PositionOf(route, d)]_vars

\* a stop in the middle of a three-stop day has just been moved
C17_Witness ==
  /\ lastOp.op = "routeMove"
  /\ Len(route) = 3
  /\ \E p \in Positions(route) : p < PositionOf(route, lastOp.arg)
  /\ \E p \in Positions(route) : p > PositionOf(route, lastOp.arg)

\* C18: no step taken in a Rep session changes the override of an existing
\* dealer, locally or in the backend row; an Admin or Manager session's
\* changeAssignedRep does set it to the chosen value.
C18_RepNeverChangesOverride ==
  [][/\ session.role = "Rep" =>
          /\ \A d \in DOMAIN dealers \cap DOMAIN dealers' : dealers'[d].rep = dealers[d].rep
          /\ \A d \in DOMAIN dbDealers \cap DOMAIN dbDealers' : dbDealers'[d].rep = dbDealers[d].rep
     /\ (lastOp'.op = "changeAssignedRep" /\ session.role \in {"Admin", "Manager"}) =>
          /\ lastOp'.patch # NoPatch
          /\ dealers'[lastOp'.arg].rep = lastOp'.patch.rep]_vars

\* a Rep session has just tried to reassign a dealer that carries an override
C18_Witness ==
  /\ session.role = "Rep"
  /\ lastOp.op = "changeAssignedRep"
  /\ lastOp.res = "denied"
  /\ dealers[lastOp.arg].rep # NoRep

(* ------------------------------ dealer search ---------------------------- *)
\* DealerSearchView.filtered, the rep filter: an overridden dealer is kept
\* only for the rep its override names, any other dealer when the selected
\* rep's states and regionsByState contain its state and region
searchKeeps(d) ==
  \/ fRep = ""
  \/ IF d.rep # NoRep
       THEN d.rep = fRep
       ELSE LET repUser == FindUser(users, fRep)
            IN /\ repUser # << >>
               /\ d.state \in repUser[1].states
               /\ includesRegion(repUser[1], d.state, d.region)
searchFiltered == {id \in DOMAIN dealers : searchKeeps(dealers[id])}

\* the Rep select of the search view: All or one of repOptions
setFRep(u) ==
  /\ session # NoSession
  /\ u = "" \/ \E i \in 1..Len(users) : users[i].role = "Rep" /\ users[i].username = u
  /\ fRep' = u
  /\ lastOp' = Op("setFRep", u, "ok")
  /\ UNCHANGED << session, users, dealers, regions, notes, tasks, dbDealers, dbNotes,
                  dbTasks, dbCoverage, dealersFetch, tasksFetch, covFetch, notesFetch,
                  seq, repFilter, routeByDate, dateStr, clock, authUsers >>

(* ------------------- specification: who covers a dealer ------------------ *)
\* one overridden dealer and two without an override, one of them in Texas
CoverageDealers ==
  [id \in {"u1", "u2", "u3"} |->
     [name |-> "Acme", state |-> IF id = "u3" THEN "TX" ELSE "IL",
      region |-> IF id = "u1" THEN "South" ELSE "North",
      status |-> "Active",
      rep |-> IF id = "u1" THEN "rep1" ELSE NoRep,
      sending |-> "unknown", reasons |-> NoReasons, lastVisited |-> 0]]

\* the rep_coverage tables tried: rep1's rows as seeded, any rows for rep2
CoverageTables ==
  {{r \in InitDbCoverage : r[1] = "rep1"} \cup {<<"rep2", x[1], x[2]>> : x \in rows} :
     rows \in SUBSET (States \X Regions)}

\* a session of the Admin or of either rep, after its load effects resolved
InitCoverage ==
  /\ \E i \in 2..Len(Profiles) :
       session = [username |-> Profiles[i].username, role |-> Profiles[i].role]
  /\ dbCoverage \in CoverageTables
  /\ users = CoverageUsers(dbCoverage)
  /\ dealers = CoverageDealers
  /\ dbDealers = CoverageDealers
  /\ regions = RebuiltCatalog(CoverageDealers)
  /\ notes = {}
  /\ tasks = {}
  /\ dbNotes = {}
  /\ dbTasks = {}
  /\ dealersFetch = None
  /\ tasksFetch = None
  /\ covFetch = None
  /\ notesFetch = None
  /\ seq = [note |-> 0, task |-> 0]
  /\ lastOp = Op("init", "", "ok")
  /\ InitViews

NextCoverage ==
  \/ \E u \in RepNames \cup {""} : setFRep(u)
  \/ \E r \in RepNames \cup {"ALL"} : setRepFilter(r)
  \/ \E d \in {"u2", "u3"} : changeStatus(d, "Inactive")
  \/ \E id \in {"u2", "u3"} : routeAddDealer(id)
  \/ clearDay

SpecCoverage == InitCoverage /\ [][NextCoverage]_vars

\* state and region coverage read off the user record
StateRegionCoverage(u, d) ==
  /\ d.state \in u.states
  /\ d.state \in DOMAIN u.regionsByState
  /\ d.region \in u.regionsByState[d.state]

\* C19: for a dealer with no override and any Rep user, the dealer page (for
\* that rep's session), the reporting scope (with that rep selected), the
\* route planner (for that rep's session) and the search rep filter (with
\* that rep selected) all answer true exactly when the dealer's state is in
\* the user's states and its region in the user's regionsByState for that
\* state; a state without a key there is not covered.
C19_CoverageSymmetry ==
  \A id \in DOMAIN dealers : \A i \in 1..Len(users) :
    (dealers[id].rep = NoRep /\ users[i].role = "Rep") =>
      LET d == dealers[id]
          u == users[i]
          cov == StateRegionCoverage(u, d)
      IN /\ repCoversDealer(u, d) <=> cov
         /\ repFilter = u.username => (id \in scopedDealers <=> cov)
         /\ fRep = u.username => (id \in searchFiltered <=> cov)
         /\ session.username = u.username =>
              /\ repHasCoverage(d) <=> cov
              /\ repCanAccess(d) <=> cov
              /\ id \in accessibleDealers <=> cov
         /\ d.state \notin DOMAIN u.regionsByState => ~repCoversDealer(u, d)

\* a rep filters the search by its own name: one dealer without an override
\* lies in a state the rep has no key for and is hidden everywhere, another
\* is covered and shown everywhere
C19_Witness ==
  /\ lastOp.op = "setFRep"
  /\ isRep
  /\ fRep = session.username
  /\ Me # << >>
  /\ \E id \in DOMAIN dealers :
       /\ dealers[id].rep = NoRep
       /\ dealers[id].state \notin DOMAIN Me[1].regionsByState
       /\ id \notin searchFiltered
       /\ id \notin accessibleDealers
  /\ \E id \in DOMAIN dealers :
       /\ dealers[id].rep = NoRep
       /\ id \in searchFiltered
       /\ id \in accessibleDealers
       /\ repCanAccess(dealers[id])

(* --------------------------- reporting: visits --------------------------- *)
\* notes scoped by selected rep (authored)
scopedNotes ==
  IF repFilter = "ALL" THEN notes
  ELSE IF selectedRep = << >> THEN {}
  ELSE {n \in notes : n.authorUsername = selectedRep[1].username}

\* 30 * 24 * 60 * 60 * 1000 ms, in days
ThirtyDays == 30

\* scopedNotes.filter(n => n.category === "Visit" && new Date(n.tsISO) >= cutoff)
recentVisits ==
  LET cutoff == clock - ThirtyDays
  IN {n \in scopedNotes : n.category = "Visit" /\ n.tsISO >= cutoff}

\* byUser[n.authorUsername] = (byUser[n.authorUsername] || 0) + 1
byUser(u) == Cardinality({n \in recentVisits : n.authorUsername = u})

\* visitsLast30.rows: Object.entries(byUser) for ALL, else the single row of
\* the selected rep (selectedRep!.username)
visitsLast30Rows ==
  IF repFilter = "ALL"
    THEN {<<n.authorUsername, byUser(n.authorUsername)>> : n \in recentVisits}
    ELSE {<<selectedRep[1].username, byUser(selectedRep[1].username)>>}

\* time passes on the viewer's machine
MaxClock == 33
clockTick ==
  /\ clock < MaxClock
  /\ clock' = clock + 1
  /\ lastOp' = Op("clockTick", "", "ok")
  /\ UNCHANGED << session, users, dealers, regions, notes, tasks, dbDealers, dbNotes,
                  dbTasks, dbCoverage, dealersFetch, tasksFetch, covFetch, notesFetch,
                  seq, repFilter, routeByDate, dateStr, fRep, authUsers >>

\* dealer_notes rows as their authors' machines stamped them (created_at is
\* the author's new Date()): 31 and 30 days before the session starts, on
\* that day, and three days after it by an author whose clock runs ahead
VisitNotesPool ==
  { [id |-> 1, dealerId |-> "u1", authorUsername |-> "rep1", category |-> "Visit", text |-> "hi", tsISO |-> 0],
    [id |-> 2, dealerId |-> "u1", authorUsername |-> "rep1", category |-> "Visit", text |-> "hi", tsISO |-> 1],
    [id |-> 3, dealerId |-> "u1", authorUsername |-> "rep2", category |-> "Visit", text |-> "hi", tsISO |-> 31],
    [id |-> 4, dealerId |-> "u1", authorUsername |-> "rep1", category |-> "Other", text |-> "hi", tsISO |-> 31],
    [id |-> 5, dealerId |-> "u1", authorUsername |-> "pronto", category |-> "Visit", text |-> "hi", tsISO |-> 31],
    [id |-> 6, dealerId |-> "u1", authorUsername |-> "rep1", category |-> "Visit", text |-> "hi", tsISO |-> 34] }

InitVisits ==
  /\ LoggedIn(2)
  /\ notes \in SUBSET VisitNotesPool
  /\ dbNotes = notes
  /\ tasks = {}
  /\ dbTasks = {}
  /\ seq = [note |-> 6, task |-> 0]

NextVisits ==
  \/ \E r \in RepNames \cup {"ALL"} : setRepFilter(r)
  \/ clockTick

SpecVisits == InitVisits /\ [][NextVisits]_vars

\* C20: the visits-last-30-days rows count exactly the scoped Visit notes
\* whose timestamp lies between thirty days before now and now, per author;
\* under ALL there is one row per author with such a note, with a rep
\* selected there is exactly one row, for that rep, zero when none qualify.
C20_VisitsLast30Window ==
  LET qualifying == {n \in scopedNotes : /\ n.category = "Visit"
                                         /\ clock - ThirtyDays <= n.tsISO
                                         /\ n.tsISO <= clock}
  IN /\ \A row \in visitsLast30Rows :
          row[2] = Cardinality({n \in qualifying : n.authorUsername = row[1]})
     /\ repFilter = "ALL" =>
          {row[1] : row \in visitsLast30Rows} = {n.authorUsername : n \in qualifying}
     /\ repFilter # "ALL" =>
          /\ Cardinality(visitsLast30Rows) = 1
          /\ \A row \in visitsLast30Rows : row[1] = repFilter

(* ----------------------- reporting: KPIs and timeline -------------------- *)
\* const statuses: DealerStatus[]
statuses == << "Active", "Pending", "Prospect", "Inactive", "Black Listed" >>

\* kpis: byStatus starts with the five statuses at 0, then byStatus[d.status]++
\* for every scoped dealer
kpis ==
  [total |-> Cardinality(scopedDealers),
   byStatus |-> [s \in Range(statuses) \cup {dealers[id].status : id \in scopedDealers} |->
                   Cardinality({id \in scopedDealers : dealers[id].status = s})]]

\* the calendar: months of DaysInMonth days, twelve to a year, day 0 being the
\* first of January of year 0
DaysInMonth == 31
MonthIndex(t) == t \div DaysInMonth
\* `${getFullYear()}-${String(getMonth() + 1).padStart(2, "0")}` of the first
\* day of month m; new Date(y, month - i, 1) carries into the year
MonthKey(m) == << m \div 12, (m % 12) + 1 >>

\* monthsBack(n): the keys of the current month and the n - 1 before it,
\* pushed newest first and then reversed
monthsBack(n) == [i \in 1..n |-> MonthKey(MonthIndex(clock) - (n - i))]
months == monthsBack(6)

monthlyVisitsSparse ==
  LET keyOf(n) == MonthKey(MonthIndex(n.tsISO))
      hit == {n \in scopedNotes : n.category = "Visit" /\ keyOf(n) \in Range(months)}
  IN [k \in {keyOf(n) : n \in hit} |-> Cardinality({n \in hit : keyOf(n) = k})]
\* monthlyVisits: map[m.key] = 0 for the six months, then map[key]++ for every
\* scoped Visit note whose month key is in the map
monthlyVisits ==
  LET keyOf(n) == MonthKey(MonthIndex(n.tsISO))
  IN [k \in Range(months) |->
        Cardinality({n \in scopedNotes : n.category = "Visit" /\ keyOf(n) = k})]

\* daysAgo(iso): Infinity for a missing date, else the whole days from the
\* date to now, Math.floor((now - d) / (24 * 60 * 60 * 1000))
Infinity == 1000000
daysAgoCeil(lv) == IF lv = 0 THEN Infinity ELSE clock - lv + 1
daysAgo(lv) == IF lv = 0 THEN Infinity ELSE clock - lv

\* notVisited30: scoped dealers, Active only, not visited in the last 30 days
notVisited30 ==
  {id \in scopedDealers : dealers[id].status = "Active" /\ daysAgo(dealers[id].lastVisited) > 30}

(* ------------------- specification: reporting figures -------------------- *)
\* the dealers table: u1 in any status, covered by rep1 (override) or by no
\* rep at all, never visited or last visited on day 1 or 2; u2 a fixed row
KpiDealerRows ==
  {[name |-> "Acme", state |-> loc[1], region |-> loc[2], status |-> st, rep |-> loc[3],
    sending |-> "unknown", reasons |-> NoReasons, lastVisited |-> lv] :
     st \in Range(statuses), loc \in {<<"IL", "South", "rep1">>, <<"TX", "South", NoRep>>},
     lv \in {0, 1, 2}}

KpiNotesPool ==
  { [id |-> 1, dealerId |-> "u1", authorUsername |-> "rep1", category |-> "Visit", text |-> "hi", tsISO |-> 0 - 200],
    [id |-> 2, dealerId |-> "u1", authorUsername |-> "rep1", category |-> "Visit", text |-> "hi", tsISO |-> 0 - 1],
    [id |-> 3, dealerId |-> "u1", authorUsername |-> "rep1", category |-> "Visit", text |-> "hi", tsISO |-> 31],
    [id |-> 4, dealerId |-> "u1", authorUsername |-> "pronto", category |-> "Other", text |-> "hi", tsISO |-> 31] }

InitKpi ==
  /\ session = [username |-> "pronto", role |-> "Admin"]
  /\ users = CoverageUsers(InitDbCoverage)
  /\ \E row \in KpiDealerRows : dealers = [id \in {"u1"} |-> row]
  /\ dbDealers = dealers
  /\ regions = RebuiltCatalog(dealers)
  /\ notes \in SUBSET KpiNotesPool
  /\ dbNotes = notes
  /\ tasks = {}
  /\ dbTasks = {}
  /\ dbCoverage = InitDbCoverage
  /\ dealersFetch = None
  /\ tasksFetch = None
  /\ covFetch = None
  /\ notesFetch = None
  /\ seq = [note |-> 4, task |-> 0]
  /\ lastOp = Op("init", "", "ok")
  /\ InitViews

NextKpi ==
  \/ \E r \in RepNames \cup {"ALL"} : setRepFilter(r)
  \/ clockTick

SpecKpi == InitKpi /\ [][NextKpi]_vars

\* the month after a month key
NextMonthKey(k) == IF k[2] = 12 THEN << k[1] + 1, 1 >> ELSE << k[1], k[2] + 1 >>

ReasonFlags == {"funding", "agreement", "feesRates", "programDiff", "eContracting", "notSigned"}
Whitespace == {" "}

\* String.prototype.trim on a text held as a sequence of characters
RECURSIVE trim(_)
trim(t) ==
  IF t = << >> THEN << >>
  ELSE IF Head(t) \in Whitespace THEN trim(Tail(t))
  ELSE IF t[Len(t)] \in Whitespace THEN trim(SubSeq(t, 1, Len(t) - 1))
  ELSE t

\* if (r.funding) ... for r = d.noDealReasons || {}
reasonFlag(r, k) == k \in DOMAIN r /\ r[k] = TRUE
\* (r.other || "")
otherText(r) == IF "other" \in DOMAIN r THEN r["other"] ELSE << >>

reasonsCountAll ==
  [k \in ReasonFlags \cup {"other"} |->
     Cardinality({id \in scopedDealers :
        IF k = "other" THEN trim(otherText(dealers[id].reasons)) # << >>
                       ELSE reasonFlag(dealers[id].reasons, k)})]
\* sendingStats.reasonsCount: the seven counters start at 0 and are raised
\* only in the sendingDeals === false branch
reasonsCount ==
  [k \in ReasonFlags \cup {"other"} |->
     Cardinality({id \in scopedDealers :
        /\ dealers[id].sending = "no"
        /\ IF k = "other" THEN trim(otherText(dealers[id].reasons)) # << >>
                          ELSE reasonFlag(dealers[id].reasons, k)})]

(* ------------------- specification: sending-deals section ---------------- *)
\* texts typed into the Other field: nothing, a blank, a word
OtherTexts == {<< >>, << " " >>, << "x" >>}

\* u1 is edited in the session; u2 does not send deals, for funding and another
\* reason; u3 sends deals and still holds a reasons record (two sessions
\* wrote sending_deals and no_deal_reasons in separate updates)
SendingDealers ==
  [id \in {"u1", "u2", "u3"} |->
     [name |-> "Acme", state |-> "IL", region |-> "South", status |-> "Active",
      rep |-> IF id = "u1" THEN "rep1" ELSE NoRep,
      sending |-> CASE id = "u1" -> "unknown" [] id = "u2" -> "no" [] OTHER -> "yes",
      reasons |-> CASE id = "u1" -> NoReasons
                    [] id = "u2" -> [funding |-> TRUE, other |-> << "x" >>]
                    [] OTHER -> [funding |-> TRUE],
      lastVisited |-> 0]]

InitSending ==
  /\ session = [username |-> "pronto", role |-> "Admin"]
  /\ users = CoverageUsers(InitDbCoverage)
  /\ dealers = SendingDealers
  /\ dbDealers = SendingDealers
  /\ regions = RebuiltCatalog(SendingDealers)
  /\ notes = {}
  /\ tasks = {}
  /\ dbNotes = {}
  /\ dbTasks = {}
  /\ dbCoverage = InitDbCoverage
  /\ dealersFetch = None
  /\ tasksFetch = None
  /\ covFetch = None
  /\ notesFetch = None
  /\ seq = [note |-> 0, task |-> 0]
  /\ lastOp = Op("init", "", "ok")
  /\ InitViews

NextSending ==
  \/ \E v \in BOOLEAN : toggleSendingDeals("u1", v)
  \/ \E v \in BOOLEAN : setReason("u1", "funding", v)
  \/ \E t \in OtherTexts : setReason("u1", "other", t)
  \/ \E r \in {"ALL", "rep1"} : setRepFilter(r)

SpecSending == InitSending /\ [][NextSending]_vars

\* C23 as stated: the "other" counter counts the scoped dealers with
\* sendingDeals = false whose other text is non-empty.
C23_OtherCountsNonEmpty ==
  reasonsCount["other"] =
    Cardinality({id \in scopedDealers :
       dealers[id].sending = "no" /\ otherText(dealers[id].reasons) # << >>})

\* C23: the reason counters count only scoped dealers with sendingDeals =
\* false: each adds 1 to every boolean reason that is true for it and 1 to
\* "other" iff its other text holds a character that is not whitespace; a
\* dealer with sendingDeals true or unknown adds nothing, whatever its
\* reasons record holds.
C23_ReasonTallies ==
  /\ DOMAIN reasonsCount = ReasonFlags \cup {"other"}
  /\ \A k \in ReasonFlags :
       reasonsCount[k] =
         Cardinality({id \in scopedDealers :
            /\ dealers[id].sending = "no"
            /\ k \in DOMAIN dealers[id].reasons
            /\ dealers[id].reasons[k] = TRUE})
  /\ reasonsCount["other"] =
       Cardinality({id \in scopedDealers :
          /\ dealers[id].sending = "no"
          /\ "other" \in DOMAIN dealers[id].reasons
          /\ \E i \in DOMAIN dealers[id].reasons["other"] :
               dealers[id].reasons["other"][i] \notin Whitespace})

\* a blank has just been typed into the Other field of a dealer that does
\* not send deals and has funding ticked; a scoped dealer that sends deals
\* holds a true reason as well
C23_Witness ==
  /\ lastOp.op = "setReason"
  /\ dealers["u1"].sending = "no"
  /\ reasonFlag(dealers["u1"].reasons, "funding")
  /\ otherText(dealers["u1"].reasons) = << " " >>
  /\ \E id \in scopedDealers : dealers[id].sending = "yes" /\ reasonFlag(dealers[id].reasons, "funding")
  /\ reasonsCount["funding"] = 2
  /\ reasonsCount["other"] = 1

(* --------------------------------- login --------------------------------- *)
\* the session handed to onLogin, with the effects keyed on [session] issuing
\* their queries
EnterApp(s, res, inputs) ==
  /\ session' = s
  /\ dealersFetch' = << dbDealers >>
  /\ tasksFetch' = << TasksQuery(s) >>
  /\ covFetch' = << dbCoverage >>
  /\ lastOp' = OpPatch("handleLogin", s.username, res, inputs)
  /\ UNCHANGED << users, dealers, regions, notes, tasks, dbDealers, dbNotes, dbTasks,
                  dbCoverage, notesFetch, seq, viewVars >>

\* LoginView.handle for the account of Profiles[i] with matching credentials
\* typed in.  status is the status column of the account's profiles row;
\* signIn is the outcome of signInWithPassword, profile that of the profiles
\* read (the row, no data, or an exception), signOut that of auth.signOut;
\* localStatus and pwOk are what the legacy fallback finds in the browser's
\* saved users and password map.
handleLogin(i, status, signIn, profile, signOut, localStatus, pwOk) ==
  /\ session = NoSession
  /\ LET p == Profiles[i]
         inputs == [status |-> status, signIn |-> signIn, profile |-> profile,
                    signOut |-> signOut, localStatus |-> localStatus, pwOk |-> pwOk]
         \* status = prof.status || "Active", role = prof.role || "Rep"
         seenStatus == IF profile = "row" THEN status ELSE "Active"
         seenRole == IF profile = "row" THEN p.role ELSE "Rep"
         blocked == signIn = "ok" /\ seenStatus = "Inactive" /\ signOut = "ok"
         fallback == signIn = "rejected" \/ (signIn = "ok" /\ seenStatus = "Inactive" /\ signOut = "throws")
         u == FindUser(users, p.username)
     IN IF signIn = "ok" /\ seenStatus # "Inactive"
          THEN EnterApp([username |-> p.username, role |-> seenRole], "ok", inputs)
        ELSE IF blocked
          THEN lastOp' = OpPatch("handleLogin", p.username, "inactive", inputs) /\ AllButLastOp
        ELSE IF u = << >> \/ localStatus = "Inactive" \/ ~pwOk
          THEN /\ fallback
               /\ lastOp' = OpPatch("handleLogin", p.username,
                                    IF u # << >> /\ localStatus = "Inactive" THEN "inactive" ELSE "invalid",
                                    inputs)
               /\ AllButLastOp
        ELSE /\ fallback
             /\ EnterApp([username |-> u[1].username, role |-> u[1].role], "ok-local", inputs)

(* --------------------------- specification: login ------------------------ *)
Statuses == {"Active", "Inactive"}

NextLogin ==
  \/ \E i \in 1..Len(Profiles), status \in Statuses, signIn \in {"ok", "rejected"},
        profile \in {"row", "none", "throws"}, signOut \in {"ok", "throws"},
        localStatus \in Statuses, pwOk \in BOOLEAN :
       handleLogin(i, status, signIn, profile, signOut, localStatus, pwOk)
  \/ Logout
  \/ Loads

SpecLogin == Init /\ [][NextLogin]_vars

\* C24: a user whose status is Inactive never obtains a session from the
\* login flow: not on the backend path when the profiles row says Inactive,
\* and not on the local fallback when the saved user says Inactive.
C24_InactiveNeverLogsIn ==
  [][(lastOp'.op = "handleLogin" /\ session = NoSession /\ session' # NoSession) =>
       /\ lastOp'.res = "ok" => lastOp'.patch.status # "Inactive"
       /\ lastOp'.res = "ok-local" => lastOp'.patch.localStatus # "Inactive"]_vars

(* ------------- specification: tasks while overrides are changed ---------- *)
NextComplete ==
  \/ \E d \in {"u1", "u2"} : addNote(d, "Manager", "hi", TRUE, TRUE, TRUE)
  \/ \E u \in {"rep2", NoRep} : changeAssignedRep("u1", u)
  \/ \E d \in {"u1", "u2"}, ok \in BOOLEAN : completeMyTask(d, ok)
  \/ Logout
  \/ Login(3)
  \/ Loads

SpecComplete == InitTasks /\ [][NextComplete]_vars

\* C25: whenever a task is open, its dealer exists and the rep it targets is
\* logged in as a Rep, the dealer page offers that rep the complete-task
\* action, also after the dealer's override was changed and for a task that
\* was created on a dealer without an override.
C25_RepCanComplete ==
  \A t \in tasks :
    (~t.completed /\ t.dealerId \in DOMAIN dealers /\ isRep /\ session.username = t.repUsername)
      => showComplete(t.dealerId)

\* C26: an acknowledged dealer update is not lost locally: when the dealers
\* query issued at login resolves, a dealer whose local row equals the row
\* the backend holds (the update was written and acknowledged) keeps it.
C26_LoadKeepsAcknowledgedUpdate ==
  [][(lastOp'.op = "dealersLoad" /\ lastOp'.res = "ok")
       => \A d \in DOMAIN dealers \cap DOMAIN dbDealers :
            dealers[d] = dbDealers[d] => (d \in DOMAIN dealers' /\ dealers'[d] = dealers[d])]_vars

\* C27: after a Visit note was added successfully, lastVisited of the note's
\* dealer is the day on which the note was added.
C27_VisitSetsLastVisited ==
  [][(lastOp'.op = "addNote" /\ lastOp'.res = "ok")
       => \A n \in notes' \ notes :
            n.category = "Visit" => dealers'[n.dealerId].lastVisited = clock']_vars

\* the dealer ids of the displayed route, in display order
DisplayedOrder(sorted) == [i \in DOMAIN sorted |-> sorted[i].dealerId]
IndexIn(ord, id) == CHOOSE i \in DOMAIN ord : ord[i] = id

\* C28: moving a displayed stop up when it is not the first displayed stop
\* (down when it is not the last) exchanges it with its neighbour in the
\* displayed route, also after a dealer with a stop on that day was removed
\* from the dealer collection.
C28_MoveSwapsDisplayedNeighbour ==
  [][lastOp'.op = "routeMove" =>
       LET ord == DisplayedOrder(sortedRoute)
           i == IndexIn(ord, lastOp'.arg)
           j == IF lastOp'.res = "up" THEN i - 1 ELSE i + 1
       IN j \in DOMAIN ord =>
            DisplayedOrder(sortedRoute') = [ord EXCEPT ![i] = ord[j], ![j] = ord[i]]]_vars

(* ------------- specification: the admin-delete-user endpoint ------------- *)
\* ids a request body can carry: none, one that fails the UUID pattern, the
\* existing users' ids and a well-formed id of no user
RequestIds == {"", "42"} \cup AuthIds \cup {"uuid-9"}
\* /^[0-9a-fA-F-]{36}$/.test(id)
IsUserUUID(id) == id \in AuthIds \cup {"uuid-9"}
\* who sends the request: nobody logged in, or a logged-in user of that role
Callers == {"anonymous", "Rep", "Manager", "Admin"}

\* api/admin-delete-user handler(req, res). env: both Supabase variables are
\* set on the server. The handler reads req.method and req.body only.
adminDeleteUser(method, id, env, caller) ==
  LET req == [method |-> method, id |-> id, env |-> env, caller |-> caller]
  IN /\ IF method # "POST" THEN authUsers' = authUsers /\ lastOp' = OpPatch("adminDeleteUser", id, "405", req)
        ELSE IF id = "" \/ ~IsUserUUID(id) THEN authUsers' = authUsers /\ lastOp' = OpPatch("adminDeleteUser", id, "400", req)
        ELSE IF ~env THEN authUsers' = authUsers /\ lastOp' = OpPatch("adminDeleteUser", id, "500", req)
        \* admin.auth.admin.deleteUser(id): an error for an id of no user
        ELSE IF id \notin authUsers THEN authUsers' = authUsers /\ lastOp' = OpPatch("adminDeleteUser", id, "400", req)
        ELSE authUsers' = authUsers \ {id} /\ lastOp' = OpPatch("adminDeleteUser", id, "200", req)
     /\ UNCHANGED << session, users, dealers, regions, notes, tasks, dbDealers, dbNotes,
                     dbTasks, dbCoverage, dealersFetch, tasksFetch, covFetch, notesFetch,
                     seq, repFilter, routeByDate, dateStr, fRep, clock >>

NextAdminApi ==
  \E method \in {"POST", "GET"}, id \in RequestIds, env \in BOOLEAN, caller \in Callers :
    adminDeleteUser(method, id, env, caller)

SpecAdminApi == Init /\ [][NextAdminApi]_vars

\* C29: the admin-delete-user endpoint deletes an auth user only when the
\* caller is authenticated and the caller's profile role is Admin.
C29_DeleteOnlyByAdmin ==
  [][authUsers' # authUsers => lastOp'.patch.caller = "Admin"]_vars

\* C30: after saveUser has persisted a Rep's coverage successfully and the
\* coverage is reloaded from the rows the backend then holds, the rep's states
\* and regionsByState are what was saved, also for a state that was selected
\* with no region.
C30_CoverageRoundTrip ==
  [][(/\ lastOp.op = "saveUser" /\ lastOp.res = "ok" /\ lastOp.arg = "rep1"
      /\ lastOp'.op = "coverageLoad" /\ lastOp'.res = "ok"
      /\ covFetch[1] = dbCoverage)
       => LET saved == FindUser(users, "rep1")[1]
              loaded == FindUser(users', "rep1")[1]
          IN /\ loaded.states = saved.states
             /\ loaded.regionsByState = saved.regionsByState]_vars

====
